---- MODULE Spec2Model ----
(***************************************************************************)
(* A model of virtual_import_board_processing.py: the two schema           *)
(* predicates, the MAWB and Shipper Site normalizers and the join that     *)
(* builds the virtual import board.                                        *)
(*                                                                         *)
(* A string is a sequence of one-character strings, so that splitting,     *)
(* stripping, slicing, measuring and title-casing are computed.  A cell is *)
(* a record [t, v]: t is "null" (NaN/None), "str", "num" (any non-string   *)
(* scalar) or "list" (the intermediate value of str.split), and v is the   *)
(* list of strings the cell holds (one string for "str" and "num").        *)
(* A table is [columns, index, rows]: the ordered column names, the row    *)
(* labels, and the rows, each a function from column name to cell.         *)
(*                                                                         *)
(* Input tables carry the labels 0..n-1 that read_excel gives them and     *)
(* distinct column names.  Whitespace is the blank.  A column is modelled  *)
(* cell by cell: the .str accessor refusing a column of numeric dtype is   *)
(* not modelled, so the model returns a table in some calls where pandas   *)
(* raises, and never the other way round.                                  *)
(***************************************************************************)
EXTENDS Integers, Sequences, FiniteSets, TLC

\* ------------------------------------------------------------------ bounds
MaxMawbRows == 2
MaxShipperRows == 2

\* ----------------------------------------------------------------- helpers
Range(s) == {s[i] : i \in DOMAIN s}

Min(a, b) == IF a < b THEN a ELSE b

Max(a, b) == IF a > b THEN a ELSE b

RECURSIVE Flatten(_)
Flatten(ss) == IF ss = <<>> THEN <<>> ELSE Head(ss) \o Flatten(Tail(ss))

\* ------------------------------------------------------------------- cells
Null == [t |-> "null", v |-> <<>>]

Str(s) == [t |-> "str", v |-> <<s>>]

Num(s) == [t |-> "num", v |-> <<s>>]

List(parts) == [t |-> "list", v |-> parts]

IsStr(c) == c.t = "str"

IsNull(c) == c.t = "null"

Val(c) == c.v[1]

\* ----------------------------------------------------------- str functions
Lowers == <<"a","b","c","d","e","f","g","h","i","j","k","l","m",
            "n","o","p","q","r","s","t","u","v","w","x","y","z">>

Uppers == <<"A","B","C","D","E","F","G","H","I","J","K","L","M",
            "N","O","P","Q","R","S","T","U","V","W","X","Y","Z">>

IsCased(ch) == ch \in Range(Lowers) \cup Range(Uppers)

Upper(ch) ==
    IF ch \in Range(Lowers) THEN Uppers[CHOOSE i \in DOMAIN Lowers : Lowers[i] = ch] ELSE ch

Lower(ch) ==
    IF ch \in Range(Uppers) THEN Lowers[CHOOSE i \in DOMAIN Uppers : Uppers[i] = ch] ELSE ch

\* str.title(): a cased character is upper-cased when it follows an uncased
\* character (or starts the string) and lower-cased when it follows a cased one.
title(s) ==
    [i \in DOMAIN s |->
        IF i > 1 /\ IsCased(s[i - 1]) THEN Lower(s[i]) ELSE Upper(s[i])]

IsSpace(ch) == ch \in {" "}

RECURSIVE lstrip(_)
lstrip(s) == IF s # <<>> /\ IsSpace(Head(s)) THEN lstrip(Tail(s)) ELSE s

RECURSIVE rstrip(_)
rstrip(s) ==
    IF s # <<>> /\ IsSpace(s[Len(s)]) THEN rstrip(SubSeq(s, 1, Len(s) - 1)) ELSE s

\* str.strip()
strip(s) == rstrip(lstrip(s))

\* str.split(sep) with a one-character separator: one part more than there
\* are separators, empty parts kept.
RECURSIVE split(_, _)
split(s, sep) ==
    IF \E i \in DOMAIN s : s[i] = sep
    THEN LET i == CHOOSE j \in DOMAIN s :
                    s[j] = sep /\ \A k \in 1..(j - 1) : s[k] # sep
         IN  <<SubSeq(s, 1, i - 1)>> \o split(SubSeq(s, i + 1, Len(s)), sep)
    ELSE <<s>>

\* s[:n]
SliceFirst(s, n) == SubSeq(s, 1, Min(n, Len(s)))

\* s[-n:]
SliceLast(s, n) == SubSeq(s, Max(1, Len(s) - n + 1), Len(s))

\* ------------------------------------------------------- column name lists
\* is_mawb_dataframe: mawb_columns
mawb_columns == <<
    "Create Date",
    "Create By",
    "Owner",
    "Load #",
    "Status",
    "Ref: MAWB",
    "Ref: Job Number",
    "Carrier Rate Carrier Name",
    "Ref: Flight Arrival",
    "Actual Ship Unit Quantity",
    "Actual Ship Unit Weight",
    "Ship Unit UOM (Actual Weight)",
    "Carrier Rate",
    "Target Ship (Early)",
    "Actual Ship Date",
    "Shipper Name",
    "Shipper Address",
    "Shipper City",
    "Shipper State",
    "Shipper Postal Code",
    "Shipper Country",
    "Target Delivery (Early)",
    "Actual Delivery Date",
    "Consignee Name",
    "Consignee Address",
    "Consignee City",
    "Consignee State",
    "Consignee Postal Code",
    "Consignee Country",
    "ActStat: Act Stat: Set Booking Status",
    "ActStat: Act Stat: Confirm PostFlight",
    "ActStat: Act Stat: Confirm Transfer 1",
    "ActStat: Act Stat: Confirm Transfer 2",
    "ActStat: Act Stat: Confirm Consignment Arr" >>

\* is_shipper_site_dataframe: shipper_site_columns
shipper_site_columns == <<
    "Create Date",
    "Create By",
    "Owner",
    "BillTo Code",
    "BillTo Name",
    "Load #",
    "Ref: House Waybill Number",
    "Ref: Temperature Range",
    "ActStat: Act Stat: RecoverTM",
    "ActPlan: Act Plan: Qualification Time",
    "Status",
    "Actual Ship Unit Quantity",
    "Actual Ship Unit Weight",
    "Ship Unit UOM (Actual Weight)",
    "Target Ship (Range)",
    "Actual Ship Date",
    "Ref: Shipper Site",
    "Shipper Name",
    "Shipper City",
    "Shipper State",
    "Shipper Country",
    "Target Delivery (Range)",
    "Actual Delivery Date",
    "ActPlan: Act Plan: Delivery Expiration",
    "Consignee Name",
    "Consignee City",
    "Consignee State",
    "Consignee Country",
    "ActStat: Act Stat: Gather Replenishment Details",
    "ActDate: Act Date: Gather Replenishment Details" >>

\* process_mawb_dataframe: select
mawb_select == <<
    "Ref: MAWB",
    "Ref: Job Number",
    "Carrier Rate Carrier Name",
    "Ref: Flight Arrival",
    "Shipper City",
    "Shipper State",
    "Shipper Postal Code",
    "Target Delivery (Early)",
    "Consignee Name",
    "Consignee City",
    "Consignee State",
    "Consignee Country" >>

\* process_shipper_site_dataframe: select
shipper_site_select == <<
    "Load #",
    "Ref: House Waybill Number",
    "Ref: Temperature Range",
    "ActPlan: Act Plan: Qualification Time",
    "Actual Ship Unit Quantity",
    "Actual Ship Unit Weight",
    "Target Delivery (Range)",
    "Consignee City" >>

\* process_mawb_dataframe: the columns= mapping of rename
mawb_rename == <<
    <<"Ref: MAWB", "MAWB">>,
    <<"Ref: Job Number", "Job Number">>,
    <<"Carrier Rate Carrier Name", "Airline Name">>,
    <<"Ref: Flight Arrival", "Flight Arrival">>,
    <<"Shipper City", "Shipper Airport City">>,
    <<"Shipper State", "Shipper Airport State">>,
    <<"Shipper Postal Code", "Shipper Airport Postal Code">>,
    <<"Target Delivery (Early)", "Target Delivery Airport">>,
    <<"Consignee Name", "Consignee Airport Name">>,
    <<"Consignee City", "Consignee Airport City">>,
    <<"Consignee State", "Consignee Airport State">>,
    <<"Consignee Country", "Consignee Airport Country">> >>

\* process_shipper_site_dataframe: the columns= mapping of rename
shipper_site_rename == <<
    <<"Load #", "Job Number">>,
    <<"Ref: House Waybill Number", "House Waybill Number">>,
    <<"Ref: Temperature Range", "Temperature Range">>,
    <<"ActPlan: Act Plan: Qualification Time", "Qualification Time">>,
    <<"Actual Ship Unit Quantity", "Ship Unit Quantity">>,
    <<"Actual Ship Unit Weight", "Ship Unit Weight">>,
    <<"Target Delivery (Range)", "Target Delivery Consignee">> >>

\* ------------------------------------------------------ DataFrame operations
DataFrame(columns, rows) ==
    [columns |-> columns, index |-> [i \in DOMAIN rows |-> i - 1], rows |-> rows]

NoFrame == DataFrame(<<>>, <<>>)

\* mutant: "contains all required columns"
SameColumnSetAtLeast(df, names) == Range(names) \subseteq Range(df.columns)

\* mutant: "has no unknown column"
SameColumnSetAtMost(df, names) == Range(df.columns) \subseteq Range(names)

\* set(df.columns) == set(names)
SameColumnSet(df, names) == Range(df.columns) = Range(names)

\* df.loc[:, select] raises KeyError when a selected label is no column
HasColumns(df, select) == Range(select) \subseteq Range(df.columns)

\* df.loc[:, select]: a new frame holding the selected columns, in the order
\* of select, with the rows and row labels of df
LocSelect(df, select) ==
    [columns |-> select,
     index   |-> df.index,
     rows    |-> [i \in DOMAIN df.rows |-> [c \in Range(select) |-> df.rows[i][c]]]]

RenamedTo(mapping, c) ==
    IF \E k \in DOMAIN mapping : mapping[k][1] = c
    THEN mapping[CHOOSE k \in DOMAIN mapping : mapping[k][1] = c][2]
    ELSE c

\* df.rename(columns=mapping)
Rename(df, mapping) ==
    LET old(n) == CHOOSE c \in Range(df.columns) : RenamedTo(mapping, c) = n
        new    == [k \in DOMAIN df.columns |-> RenamedTo(mapping, df.columns[k])]
    IN  [columns |-> new,
         index   |-> df.index,
         rows    |-> [i \in DOMAIN df.rows |-> [n \in Range(new) |-> df.rows[i][old(n)]]]]

RECURSIVE KeepPositions(_, _, _)
KeepPositions(s, keep, i) ==
    IF i > Len(s) THEN <<>>
    ELSE (IF i \in keep THEN <<s[i]>> ELSE <<>>) \o KeepPositions(s, keep, i + 1)

\* df.dropna(subset=[col]): the rows whose col is not null, labels kept
DropNa(df, col) ==
    LET keep == {i \in DOMAIN df.rows : ~IsNull(df.rows[i][col])}
    IN  [columns |-> df.columns,
         index   |-> KeepPositions(df.index, keep, 1),
         rows    |-> KeepPositions(df.rows, keep, 1)]

\* the rows one row explodes into on col: one per list element (a null for an
\* empty list), and the row itself when the cell holds no list
ExplodeRow(row, col) ==
    IF row[col].t = "list"
    THEN IF row[col].v = <<>>
         THEN <<[row EXCEPT ![col] = Null]>>
         ELSE [k \in DOMAIN row[col].v |-> [row EXCEPT ![col] = Str(row[col].v[k])]]
    ELSE <<row>>

\* df.explode(col, ignore_index=True)
Explode(df, col) ==
    DataFrame(df.columns,
              Flatten([i \in DOMAIN df.rows |-> ExplodeRow(df.rows[i], col)]))

\* pd.merge matches two keys that are equal, and also two keys that are both null
KeysMatch(a, b) == (IsNull(a) /\ IsNull(b)) \/ (~IsNull(a) /\ ~IsNull(b) /\ a = b)

MergedColumns(left, right, on) ==
    left.columns \o SelectSeq(right.columns, LAMBDA c : c # on)

MergedRow(l, r, columns) ==
    [c \in Range(columns) |-> IF c \in DOMAIN l THEN l[c] ELSE r[c]]

\* pd.merge(left, right, left_on=on, right_on=on, how="inner"): the matching
\* pairs in the order of the left rows, then of the right rows
Merge(left, right, on) ==
    LET columns    == MergedColumns(left, right, on)
        matches(l) == SelectSeq(right.rows, LAMBDA r : KeysMatch(l[on], r[on]))
        joined(l)  == [k \in DOMAIN matches(l) |-> MergedRow(l, matches(l)[k], columns)]
    IN  DataFrame(columns, Flatten([i \in DOMAIN left.rows |-> joined(left.rows[i])]))

\* ------------------------------------------------ names and the objects they name
\* A function's parameter names the caller's object; an in-place operation
\* on a name changes the object it names, an assignment to the name makes it
\* name a new object.
Bind(df) == [caller |-> df, local |-> df, shared |-> TRUE]

InPlace(st, new) ==
    [caller |-> IF st.shared THEN new ELSE st.caller,
     local  |-> new,
     shared |-> st.shared]

\* mutant: the assignment changes the object the name already names
RebindSameObject(st, new) == InPlace(st, new)

Rebind(st, new) == [caller |-> st.caller, local |-> new, shared |-> FALSE]

\* ------------------------------------------------------------------ outcomes
\* fresh: the returned frame is another object than the caller's
Returned(st, out) ==
    [kind |-> "ok", err |-> "", df |-> st.local, val |-> FALSE, fresh |-> ~st.shared,
     stdout |-> out, arg |-> st.caller, arg2 |-> NoFrame]

Raised(e, st, out) ==
    [kind |-> "error", err |-> e, df |-> NoFrame, val |-> FALSE, fresh |-> FALSE,
     stdout |-> out, arg |-> st.caller, arg2 |-> NoFrame]

Answered(b, df) ==
    [kind |-> "bool", err |-> "", df |-> NoFrame, val |-> b, fresh |-> FALSE,
     stdout |-> <<>>, arg |-> df, arg2 |-> NoFrame]

\* ------------------------------------------------------------ the functions
is_mawb_dataframe(df) == Answered(SameColumnSet(df, mawb_columns), df)

is_shipper_site_dataframe(df) == Answered(SameColumnSet(df, shipper_site_columns), df)

Warning ==
    "WARNING: Consolidation is enabled. Rows that contain multiple Job Numbers are not copied."

\* .str.split(",") gives the list of parts of a string and NaN for any other
\* value; the lambda of apply strips each part of a list and raises TypeError
\* on NaN
CanSplitJobNumbers(df) == \A i \in DOMAIN df.rows : IsStr(df.rows[i]["Job Number"])

\* mutant: the parts are not stripped
SplitJobNumberUnstripped(c) == List(split(Val(c), ","))

SplitJobNumber(c) ==
    LET parts == split(Val(c), ",") IN List([k \in DOMAIN parts |-> strip(parts[k])])

\* mutant: the length is tested without the type
ScrubStateAnyType(item) == IF ~IsNull(item) /\ Len(Val(item)) = 2 THEN item ELSE Null

ScrubState(item) == IF IsStr(item) /\ Len(Val(item)) = 2 THEN item ELSE Null

TitleCase(x) == IF IsStr(x) THEN Str(title(Val(x))) ELSE x

\* the function or lambda handed to map and apply, by name
Call(f, x) ==
    CASE f = "split_strip" -> SplitJobNumber(x)
      [] f = "scrub_state" -> ScrubState(x)
      [] f = "title"       -> TitleCase(x)

\* df[cols] = df[cols].map(f), and df[col] = df[col].apply(f)
MapCells(df, cols, f) ==
    [df EXCEPT !.rows =
        [i \in DOMAIN df.rows |->
            [c \in DOMAIN df.rows[i] |->
                IF c \in cols THEN Call(f, df.rows[i][c]) ELSE df.rows[i][c]]]]

\* mawb_df["MAWB"].notna() & (mawb_df["MAWB"].str.len() == 11)
MawbMask(c) == ~IsNull(c) /\ IsStr(c) /\ Len(Val(c)) = 11

\* mutant: the dash is left out
MawbFormattedNoDash(c) ==
    IF IsStr(c) THEN Str(SliceFirst(Val(c), 3) \o SliceLast(Val(c), 8)) ELSE Null

\* mawb_df["MAWB"].str[:3] + "-" + mawb_df["MAWB"].str[-8:]
MawbFormatted(c) ==
    IF IsStr(c) THEN Str(SliceFirst(Val(c), 3) \o <<"-">> \o SliceLast(Val(c), 8)) ELSE Null

\* mawb_df.loc[mask, "MAWB"] = series: a masked row takes the element of the
\* series that carries the row's label
ReformatMawb(df) ==
    LET series   == [i \in DOMAIN df.rows |-> MawbFormatted(df.rows[i]["MAWB"])]
        at(lbl)  == series[CHOOSE q \in DOMAIN df.index : df.index[q] = lbl]
    IN  [df EXCEPT !.rows =
            [i \in DOMAIN df.rows |->
                IF MawbMask(df.rows[i]["MAWB"])
                THEN [df.rows[i] EXCEPT !["MAWB"] = at(df.index[i])]
                ELSE df.rows[i]]]

columns_to_check_state == {"Shipper Airport State", "Consignee Airport State"}

columns_to_title ==
    {"Shipper Airport City", "Consignee Airport Name", "Consignee Airport City", "Airline Name"}

\* lines 225-244 of process_mawb_dataframe
CleanMawb(st, out) ==
    LET s1 == InPlace(st, MapCells(st.local, columns_to_check_state, "scrub_state"))
        s2 == InPlace(s1, MapCells(s1.local, columns_to_title, "title"))
        s3 == InPlace(s2, ReformatMawb(s2.local))
    IN  Returned(s3, out)

\* mutant: the flag is ignored and the Job Numbers are always split
ExpandMawbAlways(st, consolidate) ==
    LET s1 == InPlace(st, DropNa(st.local, "MAWB"))
    IN  IF ~CanSplitJobNumbers(s1.local)
        THEN Raised("TypeError", s1, <<>>)
        ELSE LET s2 == InPlace(s1, MapCells(s1.local, {"Job Number"}, "split_strip"))
                 s3 == Rebind(s2, Explode(s2.local, "Job Number"))
             IN  CleanMawb(s3, <<>>)

\* lines 214-223 of process_mawb_dataframe
ExpandMawb(st, consolidate) ==
    LET s1 == InPlace(st, DropNa(st.local, "MAWB"))
    IN  IF ~consolidate
        THEN IF ~CanSplitJobNumbers(s1.local)
             THEN Raised("TypeError", s1, <<>>)
             ELSE LET s2 == InPlace(s1, MapCells(s1.local, {"Job Number"}, "split_strip"))
                      s3 == Rebind(s2, Explode(s2.local, "Job Number"))
                  IN  CleanMawb(s3, <<>>)
        ELSE CleanMawb(s1, <<Warning>>)

process_mawb_dataframe(mawb_df, consolidate) ==
    LET s0 == Bind(mawb_df)
    IN  IF ~HasColumns(s0.local, mawb_select)
        THEN Raised("KeyError", s0, <<>>)
        ELSE LET s1 == Rebind(s0, LocSelect(s0.local, mawb_select))
                 s2 == InPlace(s1, Rename(s1.local, mawb_rename))
             IN  ExpandMawb(s2, consolidate)

process_shipper_site_dataframe(shipper_site_df) ==
    LET s0 == Bind(shipper_site_df)
    IN  IF ~HasColumns(s0.local, shipper_site_select)
        THEN Raised("KeyError", s0, <<>>)
        ELSE LET s1 == Rebind(s0, LocSelect(s0.local, shipper_site_select))
                 s2 == InPlace(s1, Rename(s1.local, shipper_site_rename))
                 s3 == InPlace(s2, MapCells(s2.local, {"Consignee City"}, "title"))
             IN  Returned(s3, <<>>)

create_virtual_import_board_dataframe(mawb_df, shipper_site_df, consolidate) ==
    LET m == process_mawb_dataframe(mawb_df, consolidate)
    IN  IF m.kind = "error"
        THEN [m EXCEPT !.arg2 = shipper_site_df]
        ELSE LET s == process_shipper_site_dataframe(shipper_site_df)
             IN  IF s.kind = "error"
                 THEN [s EXCEPT !.stdout = m.stdout, !.arg = m.arg, !.arg2 = s.arg]
                 ELSE [kind |-> "ok", err |-> "", val |-> FALSE, fresh |-> TRUE,
                       df |-> Merge(m.df, s.df, "Job Number"),
                       stdout |-> m.stdout \o s.stdout,
                       arg |-> m.arg, arg2 |-> s.arg]

\* ------------------------------------------------------------- input tables
M11 == <<"1","2","3","4","5","6","7","8","9","0","1">>

AB123 == <<"A","B","1","2","3">>

A1 == <<"A","1">>

A1B2 == <<"A","1",","," ","B","2">>

A1Comma == <<"A","1",",">>

BlankB2 == <<" ","B","2">>

B2 == <<"B","2">>

NewYork == <<"n","e","w"," ","y","O","r","k">>

Filler == Str(<<"x">>)

MawbCells == {Null, Str(<<>>), Str(M11), Str(AB123)}

JobCells == {Null, Str(A1), Str(A1B2), Str(A1Comma), Num(<<"7">>)}

StateCells == {Null, Str(<<>>), Str(<<"C">>), Str(<<"C","A">>), Str(<<"C","a","l">>),
               Num(<<"1","2">>)}

TextCells == {Null, Str(NewYork), Num(<<"5">>)}

LoadCells == {Null, Str(A1), Str(B2), Str(BlankB2)}

MawbRow(columns, mawb, job, sstate, cstate, text) ==
    [c \in Range(columns) |->
        CASE c = "Ref: MAWB"         -> mawb
          [] c = "Ref: Job Number"   -> job
          [] c = "Shipper State"     -> sstate
          [] c = "Consignee State"   -> cstate
          [] c = "Shipper City"      -> text
          [] c = "Consignee Name"    -> text
          [] OTHER                   -> Filler]

ShipperRow(columns, load, text) ==
    [c \in Range(columns) |->
        CASE c = "Load #"            -> load
          [] c = "Consignee City"    -> text
          [] OTHER                   -> Filler]

DefaultMawbRow(columns) ==
    MawbRow(columns, Str(M11), Str(A1), Str(<<"C","A">>), Null, Str(NewYork))

DefaultShipperRow(columns) == ShipperRow(columns, Str(A1), Str(NewYork))

DefaultMawbFrame == DataFrame(mawb_columns, <<DefaultMawbRow(mawb_columns)>>)

DefaultShipperFrame ==
    DataFrame(shipper_site_columns, <<DefaultShipperRow(shipper_site_columns)>>)

SeqsUpTo(S, n) == UNION {[1..k -> S] : k \in 0..n}

\* tables that differ in the MAWB and Job Number cells of their rows (a row
\* without MAWB is dropped whatever its Job Number: two of those are kept)
IdentRows ==
    {MawbRow(mawb_columns, m, j, Str(<<"C","A">>), Str(<<"C","a","l">>), Str(NewYork)) :
        m \in MawbCells \ {Null}, j \in JobCells}
    \cup {MawbRow(mawb_columns, Null, j, Str(<<"C","A">>), Str(<<"C","a","l">>), Str(NewYork)) :
            j \in {Null, Str(A1B2)}}

\* one-row tables that differ in the state and text cells
CellRows ==
    {MawbRow(mawb_columns, Str(M11), Str(A1), s, c, x) :
        s \in StateCells, c \in StateCells, x \in TextCells}

\* tables for the join: job numbers on the one side, load numbers on the other
JoinMawbRows ==
    {MawbRow(mawb_columns, Str(M11), j, Null, Null, Null) : j \in {Null, Str(A1), Str(A1B2)}}

JoinShipperRows ==
    {ShipperRow(shipper_site_columns, l, x) :
        l \in LoadCells, x \in {Str(NewYork)}} \cup
    {ShipperRow(shipper_site_columns, Str(A1), Num(<<"5">>))}

RemoveAt(s, k) == SubSeq(s, 1, k - 1) \o SubSeq(s, k + 1, Len(s))

Reverse(s) == [i \in DOMAIN s |-> s[Len(s) + 1 - i]]

Respell(s, from, to) == [i \in DOMAIN s |-> IF s[i] = from THEN to ELSE s[i]]

\* column lists around a schema: itself, reordered, one column missing, one
\* extra, one respelled in case or with a trailing blank
ColumnVariants(names) ==
    {names, Reverse(names), names \o <<"Extra">>, <<>>,
     Respell(names, "Status", "status"), Respell(names, "Status", "Status ")}
    \cup {RemoveAt(names, k) : k \in DOMAIN names}

ShapeColumns ==
    ColumnVariants(mawb_columns) \cup ColumnVariants(shipper_site_columns)
    \cup {mawb_select, shipper_site_select}

ShapeFrames ==
    {DataFrame(cs, <<DefaultMawbRow(cs)>>) : cs \in ShapeColumns}
    \cup {DataFrame(cs, <<DefaultShipperRow(cs)>>) : cs \in ShapeColumns}

Inputs ==
    {<<DataFrame(mawb_columns, rs), DefaultShipperFrame>> :
        rs \in SeqsUpTo(IdentRows, MaxMawbRows)}
    \cup {<<DataFrame(mawb_columns, <<r>>), DefaultShipperFrame>> : r \in CellRows}
    \cup {<<DataFrame(mawb_columns, ms), DataFrame(shipper_site_columns, ss)>> :
            ms \in SeqsUpTo(JoinMawbRows, MaxMawbRows),
            ss \in SeqsUpTo(JoinShipperRows, MaxShipperRows)}
    \cup {<<f, DefaultShipperFrame>> : f \in ShapeFrames}
    \cup {<<DefaultMawbFrame, f>> : f \in ShapeFrames}

\* -------------------------------------------------------------- the program
VARIABLES mawb_df, shipper_site_df, consolidate, called, result

vars == <<mawb_df, shipper_site_df, consolidate, called, result>>

NoResult ==
    [kind |-> "none", err |-> "", df |-> NoFrame, val |-> FALSE, fresh |-> FALSE,
     stdout |-> <<>>, arg |-> NoFrame, arg2 |-> NoFrame]

Init ==
    /\ \E in \in Inputs : mawb_df = in[1] /\ shipper_site_df = in[2]
    /\ consolidate \in BOOLEAN
    /\ called = "none"
    /\ result = NoResult

IsMawbDataframe ==
    /\ called = "none"
    /\ called' = "is_mawb_dataframe"
    /\ result' = is_mawb_dataframe(mawb_df)
    /\ mawb_df' = result'.arg
    /\ UNCHANGED <<shipper_site_df, consolidate>>

IsShipperSiteDataframe ==
    /\ called = "none"
    /\ called' = "is_shipper_site_dataframe"
    /\ result' = is_shipper_site_dataframe(shipper_site_df)
    /\ shipper_site_df' = result'.arg
    /\ UNCHANGED <<mawb_df, consolidate>>

ProcessMawbDataframe ==
    /\ called = "none"
    /\ called' = "process_mawb_dataframe"
    /\ result' = process_mawb_dataframe(mawb_df, consolidate)
    /\ mawb_df' = result'.arg
    /\ UNCHANGED <<shipper_site_df, consolidate>>

ProcessShipperSiteDataframe ==
    /\ called = "none"
    /\ called' = "process_shipper_site_dataframe"
    /\ result' = process_shipper_site_dataframe(shipper_site_df)
    /\ shipper_site_df' = result'.arg
    /\ UNCHANGED <<mawb_df, consolidate>>

CreateVirtualImportBoardDataframe ==
    /\ called = "none"
    /\ called' = "create_virtual_import_board_dataframe"
    /\ result' = create_virtual_import_board_dataframe(mawb_df, shipper_site_df, consolidate)
    /\ mawb_df' = result'.arg
    /\ shipper_site_df' = result'.arg2
    /\ UNCHANGED consolidate

Next ==
    \/ IsMawbDataframe
    \/ IsShipperSiteDataframe
    \/ ProcessMawbDataframe
    \/ ProcessShipperSiteDataframe
    \/ CreateVirtualImportBoardDataframe

Spec == Init /\ [][Next]_vars

\* ------------------------------------------------------------------- claims
ReturnedFrom(f) == called = f /\ result.kind = "ok"

In(df) == df.rows

Out == result.df.rows

\* the positions of the input rows that pass the MAWB filter, in input order
Survivors ==
    SelectSeq([i \in DOMAIN In(mawb_df) |-> i],
              LAMBDA i : ~IsNull(In(mawb_df)[i]["Ref: MAWB"]))

JobParts(i) == split(Val(In(mawb_df)[i]["Ref: Job Number"]), ",")

\* for each output row of process_mawb_dataframe, the position of the input
\* row it is claimed to come from
Origin ==
    Flatten([s \in DOMAIN Survivors |->
        [k \in 1..(IF consolidate THEN 1 ELSE Len(JobParts(Survivors[s]))) |-> Survivors[s]]])

Count(s, x) == Cardinality({i \in DOMAIN s : s[i] = x})

\* C1: create_virtual_import_board_dataframe returns exactly one combined
\* record for every pair of a normalized MAWB record and a normalized Shipper
\* Site record whose Job Numbers are equal strings, and nothing else: a null
\* Job Number matches nothing.
C1_JoinOnEqualStringsOnly ==
    ReturnedFrom("create_virtual_import_board_dataframe") =>
        LET m == process_mawb_dataframe(mawb_df, consolidate).df.rows
            s == process_shipper_site_dataframe(shipper_site_df).df.rows
            equal(i, j) == /\ IsStr(m[i]["Job Number"])
                           /\ IsStr(s[j]["Job Number"])
                           /\ Val(m[i]["Job Number"]) = Val(s[j]["Job Number"])
            combined(i, j) == [c \in Range(result.df.columns) |->
                                 IF c \in DOMAIN m[i] THEN m[i][c] ELSE s[j][c]]
            pairs == {p \in (DOMAIN m) \X (DOMAIN s) : equal(p[1], p[2])}
        IN  /\ Len(Out) = Cardinality(pairs)
            /\ \A p \in pairs :
                 Count(Out, combined(p[1], p[2])) =
                 Cardinality({q \in pairs : combined(q[1], q[2]) = combined(p[1], p[2])})

C3_NoEmptyIdentifiers ==
    ReturnedFrom("process_mawb_dataframe") =>
        \A p \in DOMAIN Out :
            /\ ~IsNull(Out[p]["MAWB"]) /\ Out[p]["MAWB"] # Str(<<>>)
            /\ ~IsNull(Out[p]["Job Number"]) /\ Out[p]["Job Number"] # Str(<<>>)

\* C4: each schema predicate answers true exactly when every column name of
\* the table is a name of the schema and every name of the schema is a column
\* of the table, whatever the order of the columns.
C4_ShapeIffSameNames ==
    /\ called = "is_mawb_dataframe" =>
         (result.val <=>
            /\ \A k \in DOMAIN mawb_df.columns :
                 \E n \in DOMAIN mawb_columns : mawb_columns[n] = mawb_df.columns[k]
            /\ \A n \in DOMAIN mawb_columns :
                 \E k \in DOMAIN mawb_df.columns : mawb_df.columns[k] = mawb_columns[n])
    /\ called = "is_shipper_site_dataframe" =>
         (result.val <=>
            /\ \A k \in DOMAIN shipper_site_df.columns :
                 \E n \in DOMAIN shipper_site_columns :
                    shipper_site_columns[n] = shipper_site_df.columns[k]
            /\ \A n \in DOMAIN shipper_site_columns :
                 \E k \in DOMAIN shipper_site_df.columns :
                    shipper_site_df.columns[k] = shipper_site_columns[n])

C4_Witness ==
    /\ called = "is_mawb_dataframe"
    /\ result.val
    /\ mawb_df.columns # mawb_columns

C6_FailsOnlyOnMissingColumn ==
    called = "process_mawb_dataframe" =>
        (result.kind = "error" <=> ~HasColumns(mawb_df, mawb_select))

\* the MAWB the claim expects for a source MAWB
ExpectedMawb(c) ==
    IF IsStr(c) /\ Len(Val(c)) = 11
    THEN Str(SubSeq(Val(c), 1, 3) \o <<"-">> \o SubSeq(Val(c), 4, 11))
    ELSE c

\* C7: the MAWB of every returned row is that of its own source row, with a
\* dash put after the third character when the source has 11 characters and
\* unchanged otherwise; no returned MAWB has 11 characters.
C7_MawbReformatted ==
    ReturnedFrom("process_mawb_dataframe") =>
        /\ Len(Out) = Len(Origin)
        /\ \A p \in DOMAIN Out :
             /\ Out[p]["MAWB"] = ExpectedMawb(In(mawb_df)[Origin[p]]["Ref: MAWB"])
             /\ IsStr(Out[p]["MAWB"]) => Len(Val(Out[p]["MAWB"])) # 11

C7_Witness ==
    /\ ReturnedFrom("process_mawb_dataframe") /\ ~consolidate
    /\ Len(In(mawb_df)) = 2
    /\ Len(Out) = 3
    /\ Out[1]["MAWB"] = Str(AB123)
    /\ Out[2]["MAWB"] = Str(<<"1","2","3","-","4","5","6","7","8","9","0","1">>)
    /\ Out[3]["MAWB"] = Out[2]["MAWB"]

\* the state the claim expects for a source state
ExpectedState(c) == IF c.t = "str" /\ Len(c.v[1]) = 2 THEN c ELSE Null

\* C8: each of the two state fields of a returned row is the source value
\* when that is a string of 2 characters and null otherwise, so it is null
\* or a 2-character string.
C8_StatesScrubbed ==
    ReturnedFrom("process_mawb_dataframe") =>
        /\ Len(Out) = Len(Origin)
        /\ \A p \in DOMAIN Out :
             LET src == In(mawb_df)[Origin[p]]
                 ok(c) == IsNull(c) \/ (IsStr(c) /\ Len(Val(c)) = 2)
             IN  /\ Out[p]["Shipper Airport State"] = ExpectedState(src["Shipper State"])
                 /\ Out[p]["Consignee Airport State"] = ExpectedState(src["Consignee State"])
                 /\ ok(Out[p]["Shipper Airport State"])
                 /\ ok(Out[p]["Consignee Airport State"])

C8_Witness ==
    /\ ReturnedFrom("process_mawb_dataframe")
    /\ Len(Out) = 1
    /\ In(mawb_df)[1]["Shipper State"] = Str(<<"C","A">>)
    /\ In(mawb_df)[1]["Consignee State"] = Num(<<"1","2">>)
    /\ Out[1]["Shipper Airport State"] = Str(<<"C","A">>)
    /\ Out[1]["Consignee Airport State"] = Null

C10_InputsUnchanged ==
    [][/\ mawb_df' = mawb_df
       /\ shipper_site_df' = shipper_site_df
       /\ result'.kind = "ok" => result'.fresh
       /\ (called' = "process_shipper_site_dataframe" /\ result'.kind = "ok") =>
            /\ Len(result'.df.rows) = Len(shipper_site_df.rows)
            /\ result'.df.index = shipper_site_df.index
            /\ \A i \in DOMAIN shipper_site_df.rows :
                 \A k \in DOMAIN shipper_site_select :
                    LET from == shipper_site_df.rows[i][shipper_site_select[k]]
                        to   == result'.df.rows[i][RenamedTo(shipper_site_rename,
                                                             shipper_site_select[k])]
                    IN  \/ to = from
                        \/ /\ shipper_site_select[k] = "Consignee City"
                           /\ IsStr(from)
                           /\ to = Str(title(Val(from)))]_vars

C10_Witness ==
    /\ ReturnedFrom("process_shipper_site_dataframe")
    /\ result.fresh
    /\ Len(Out) = 2
    /\ shipper_site_df.columns = shipper_site_columns
    /\ shipper_site_df.rows[1]["Consignee City"] = Str(NewYork)
    /\ Out[1]["Consignee City"] = Str(<<"N","e","w"," ","Y","o","r","k">>)
    /\ Out[2]["Consignee City"] = Num(<<"5">>)

====
